---- MODULE Spec2Model ----
(***************************************************************************)
(* Model of the screenshot utility (src/scripts/screenshot.py) and of the  *)
(* "save only if changed" gate of its test suite                           *)
(* (src/tests/test_screenshots.py).                                        *)
(*                                                                         *)
(* Three specifications share the module:                                  *)
(*   SpecCmp   images_are_identical applied to pairs of files              *)
(*   Spec      _capture_and_compare / save_screenshot_if_changed           *)
(*   SpecShot  screenshot_html / screenshot_with_interaction as sequences  *)
(*             of calls on the browser session                             *)
(***************************************************************************)
EXTENDS Integers, Sequences, FiniteSets, TLC

VARIABLES fs,     \* the file system: path -> content of the file (NoFile when absent)
          pil,    \* whether "from PIL import Image" succeeds in this environment
          cmp,    \* the last call of images_are_identical
          gate,   \* the last call of _capture_and_compare
          hist,   \* per reference path, the captures stored or compared so far
          shot    \* the last call of screenshot_html / screenshot_with_interaction

vars == <<fs, pil, cmp, gate, hist, shot>>

(***************************************************************************)
(* Files.  A file's bytes are modelled by their parts: kind says what the  *)
(* bytes are, and a PNG has a header (w, mode), pixel data (pix), an       *)
(* ancillary chunk that does not influence decoding (meta: without or with *)
(* it), and may be cut short after its header (trunc).                     *)
(***************************************************************************)
MaxPix == 1

Widths == {1400, 1024}
Modes == {"RGB", "RGBA"}

Blob(k, w, m, p, e, t) == [kind |-> k, w |-> w, mode |-> m, pix |-> p, meta |-> e, trunc |-> t]

NoFile == Blob("none", 0, "", 0, 0, FALSE)
Empty == Blob("empty", 0, "", 0, 0, FALSE)
Junk == Blob("junk", 0, "", 0, 0, FALSE)
Unreadable == Blob("unreadable", 0, "", 0, 0, FALSE)

PngBlobs == [kind : {"png"}, w : Widths, mode : Modes, pix : 0..MaxPix,
             meta : {0, 1}, trunc : BOOLEAN]

Blobs == PngBlobs \cup {Empty, Junk, Unreadable}

Paths == {"ref1", "ref2", "tmp1", "tmp2"}

\* Path.exists()
exists(f, p) == f[p].kind # "none"

\* Path.stat().st_size: only its sign matters to the program
st_size(b) == IF b.kind = "empty" THEN 0 ELSE 1

\* open(path, 'rb') succeeds
CanRead(b) == b.kind \in {"png", "junk", "empty"}

\* PIL Image.open(path): reads the header; raises on a file that is no image
CanOpen(b) == b.kind = "png"

\* Image.size, Image.mode: from the header
ImageSize(b) == b.w
ImageMode(b) == b.mode

\* Image.tobytes(): decodes the pixel data; raises on a truncated file.
\* The ancillary chunk is not part of the result.
CanDecode(b) == CanOpen(b) /\ ~b.trunc

\* a variant that compares everything the file holds
tobytes_WithMeta(b) == <<"raw", b.pix, b.meta>>

tobytes(b) == <<"raw", b.pix>>

\* a variant that digests the pixel data alone
file_hash_PixelsOnly(b) == <<"sha256", b.kind, b.w, b.mode, b.pix, b.trunc>>

\* hashlib.sha256(f.read()).hexdigest(): a digest of all the bytes of the file
file_hash(b) == <<"sha256", b.kind, b.w, b.mode, b.pix, b.meta, b.trunc>>

(***************************************************************************)
(* images_are_identical(path1, path2).  The result records what the call   *)
(* returned (or that it raised), which files it opened, and which of the   *)
(* two comparison paths ran.                                               *)
(***************************************************************************)
CmpResult(r, raised, opened, via) ==
    [result |-> r, raised |-> raised, opened |-> opened, via |-> via]

\* a variant without the check of the modes
PillowCompare_NoModeCheck(f, p1, p2) ==
    IF ~exists(f, p1) \/ ~exists(f, p2) THEN CmpResult(FALSE, FALSE, {}, "pillow")
    ELSE IF ~CanOpen(f[p1]) THEN CmpResult(FALSE, FALSE, {p1}, "pillow")
    ELSE IF ~CanOpen(f[p2]) THEN CmpResult(FALSE, FALSE, {p1, p2}, "pillow")
    ELSE IF ImageSize(f[p1]) # ImageSize(f[p2]) THEN CmpResult(FALSE, FALSE, {p1, p2}, "pillow")
    ELSE IF ~CanDecode(f[p1]) \/ ~CanDecode(f[p2]) THEN CmpResult(FALSE, FALSE, {p1, p2}, "pillow")
    ELSE CmpResult(tobytes(f[p1]) = tobytes(f[p2]), FALSE, {p1, p2}, "pillow")

\* the try body, lines 31-50, with "except Exception: return False" (64-65)
PillowCompare(f, p1, p2) ==
    IF ~exists(f, p1) \/ ~exists(f, p2) THEN CmpResult(FALSE, FALSE, {}, "pillow")
    ELSE IF ~CanOpen(f[p1]) THEN CmpResult(FALSE, FALSE, {p1}, "pillow")
    ELSE IF ~CanOpen(f[p2]) THEN CmpResult(FALSE, FALSE, {p1, p2}, "pillow")
    ELSE IF ImageSize(f[p1]) # ImageSize(f[p2]) THEN CmpResult(FALSE, FALSE, {p1, p2}, "pillow")
    ELSE IF ImageMode(f[p1]) # ImageMode(f[p2]) THEN CmpResult(FALSE, FALSE, {p1, p2}, "pillow")
    ELSE IF ~CanDecode(f[p1]) \/ ~CanDecode(f[p2]) THEN CmpResult(FALSE, FALSE, {p1, p2}, "pillow")
    ELSE CmpResult(tobytes(f[p1]) = tobytes(f[p2]), FALSE, {p1, p2}, "pillow")

\* a variant that hashes the first file before it looks for the second
HashCompare_ReadFirst(f, p1, p2) ==
    IF ~exists(f, p1) THEN CmpResult(FALSE, FALSE, {}, "hash")
    ELSE IF ~CanRead(f[p1]) THEN CmpResult(FALSE, TRUE, {p1}, "hash")
    ELSE IF ~exists(f, p2) THEN CmpResult(FALSE, FALSE, {p1}, "hash")
    ELSE IF ~CanRead(f[p2]) THEN CmpResult(FALSE, TRUE, {p1, p2}, "hash")
    ELSE CmpResult(file_hash(f[p1]) = file_hash(f[p2]), FALSE, {p1, p2}, "hash")

\* the "except ImportError" handler, lines 52-63; an exception raised inside
\* a handler is not caught by the sibling "except Exception" clause
HashCompare(f, p1, p2) ==
    IF ~exists(f, p1) \/ ~exists(f, p2) THEN CmpResult(FALSE, FALSE, {}, "hash")
    ELSE IF ~CanRead(f[p1]) THEN CmpResult(FALSE, TRUE, {p1}, "hash")
    ELSE IF ~CanRead(f[p2]) THEN CmpResult(FALSE, TRUE, {p1, p2}, "hash")
    ELSE CmpResult(file_hash(f[p1]) = file_hash(f[p2]), FALSE, {p1, p2}, "hash")

images_are_identical(f, havePil, p1, p2) ==
    IF havePil THEN PillowCompare(f, p1, p2) ELSE HashCompare(f, p1, p2)

(***************************************************************************)
(* Paths as the screenshot functions see them: a sequence of components,   *)
(* absolute or relative to the working directory.                          *)
(***************************************************************************)
PathRec(abs, parts) == [abs |-> abs, parts |-> parts]

Cwd == <<"proj">>

\* os.path.abspath
abspath(p) == IF p.abs THEN p ELSE PathRec(TRUE, Cwd \o p.parts)

\* os.path.dirname: '' for a bare file name
dirname(p) == PathRec(p.abs, SubSeq(p.parts, 1, Len(p.parts) - 1))

\* the empty string, as a path
IsEmptyPath(p) == ~p.abs /\ p.parts = <<>>

\* f"file://{abs_path}"
file_url(html_path) == <<"file://", abspath(html_path)>>

\* browser_args, identical in both functions
browser_args == <<"--no-sandbox", "--disable-setuid-sandbox", "--disable-dev-shm-usage",
                  "--disable-gpu", "--no-first-run", "--no-zygote", "--single-process",
                  "--disable-extensions">>

InitialLoadMs == 500
FinalWaitMs == 300
DefaultWaitMs == 500
DefaultDelta == 0 - 100

(***************************************************************************)
(* Actions are dicts: functions from keys to values.                       *)
(***************************************************************************)
\* dict.get(key, default)
get(a, k, d) == IF k \in DOMAIN a THEN a[k] ELSE d

\* a variant that clicks whether or not the action names a selector
Dispatch_ClicksWithoutSelector(action, width, height) ==
    IF "type" \notin DOMAIN action THEN <<>>
    ELSE IF action.type = "wait" THEN
        << <<"wait_for_timeout", get(action, "ms", DefaultWaitMs)>> >>
    ELSE IF action.type = "click" THEN
        << <<"click", get(action, "selector", "")>> >>
    ELSE IF action.type = "click_position" THEN
        << <<"mouse.click", get(action, "x", 0), get(action, "y", 0)>> >>
    ELSE IF action.type = "scroll" THEN
        LET delta == get(action, "delta", DefaultDelta)
            x == get(action, "x", width \div 2)
            y == get(action, "y", height \div 2)
        IN  << <<"mouse.wheel", delta, delta>> >>
    ELSE IF action.type = "drag" THEN
        << <<"mouse.move", get(action, "start_x", 0), get(action, "start_y", 0)>>,
           <<"mouse.down">>,
           <<"mouse.move", get(action, "end_x", 0), get(action, "end_y", 0)>>,
           <<"mouse.up">> >>
    ELSE IF action.type = "evaluate" THEN
        << <<"evaluate", get(action, "script", "")>> >>
    ELSE <<>>

\* a variant whose drag does not release the button
Dispatch_DragKeepsButtonDown(action, width, height) ==
    IF "type" \notin DOMAIN action THEN <<>>
    ELSE IF action.type = "wait" THEN
        << <<"wait_for_timeout", get(action, "ms", DefaultWaitMs)>> >>
    ELSE IF action.type = "click" THEN
        IF "selector" \in DOMAIN action /\ action.selector # ""
        THEN << <<"click", action.selector>> >>
        ELSE <<>>
    ELSE IF action.type = "click_position" THEN
        << <<"mouse.click", get(action, "x", 0), get(action, "y", 0)>> >>
    ELSE IF action.type = "scroll" THEN
        LET delta == get(action, "delta", DefaultDelta)
            x == get(action, "x", width \div 2)
            y == get(action, "y", height \div 2)
        IN  << <<"mouse.wheel", delta, delta>> >>
    ELSE IF action.type = "drag" THEN
        << <<"mouse.move", get(action, "start_x", 0), get(action, "start_y", 0)>>,
           <<"mouse.down">>,
           <<"mouse.move", get(action, "end_x", 0), get(action, "end_y", 0)>> >>
    ELSE IF action.type = "evaluate" THEN
        << <<"evaluate", get(action, "script", "")>> >>
    ELSE <<>>

\* the calls on the page that one action of the list makes, lines 119-148
Dispatch(action, width, height) ==
    IF "type" \notin DOMAIN action THEN <<>>
    ELSE IF action.type = "wait" THEN
        << <<"wait_for_timeout", get(action, "ms", DefaultWaitMs)>> >>
    ELSE IF action.type = "click" THEN
        IF "selector" \in DOMAIN action /\ action.selector # ""
        THEN << <<"click", action.selector>> >>
        ELSE <<>>
    ELSE IF action.type = "click_position" THEN
        << <<"mouse.click", get(action, "x", 0), get(action, "y", 0)>> >>
    ELSE IF action.type = "scroll" THEN
        LET delta == get(action, "delta", DefaultDelta)
            x == get(action, "x", width \div 2)
            y == get(action, "y", height \div 2)
        IN  << <<"mouse.wheel", delta, delta>> >>
    ELSE IF action.type = "drag" THEN
        << <<"mouse.move", get(action, "start_x", 0), get(action, "start_y", 0)>>,
           <<"mouse.down">>,
           <<"mouse.move", get(action, "end_x", 0), get(action, "end_y", 0)>>,
           <<"mouse.up">> >>
    ELSE IF action.type = "evaluate" THEN
        << <<"evaluate", get(action, "script", "")>> >>
    ELSE <<>>

\* the for loop over the list, lines 118-148
RECURSIVE DispatchAll(_, _, _)
DispatchAll(list, width, height) ==
    IF list = <<>> THEN <<>>
    ELSE Dispatch(Head(list), width, height) \o DispatchAll(Tail(list), width, height)

\* the actions argument: None, or a list
NoActions == [given |-> FALSE, list |-> <<>>]
ActionList(list) == [given |-> TRUE, list |-> list]

\* "if actions:" is false for None and for the empty list
Truthy(actions) == actions.given /\ actions.list # <<>>

(***************************************************************************)
(* A call of a screenshot function is the sequence of calls it makes on    *)
(* the operating system and the browser.  Any of them may raise; failAt is *)
(* the position of the call that does (0: none), and the function then     *)
(* stops there: no later call is made and nothing is returned.             *)
(***************************************************************************)
Run(plan, failAt, output_path) ==
    LET raised == failAt \in 1..Len(plan)
        calls == IF raised THEN SubSeq(plan, 1, failAt) ELSE plan
    IN  [calls |-> calls,
         raised |-> raised,
         \* page.screenshot completed and wrote its file
         wrote |-> \E i \in 1..Len(calls) : calls[i][1] = "screenshot" /\ (raised => i < failAt),
         returned |-> ~raised,
         ret |-> output_path]

\* a variant that closes the browser before the capture
PlanHtml_CloseFirst(html_path, output_path, width, height, wait_time, full_page) ==
    (IF ~IsEmptyPath(dirname(output_path))
     THEN << <<"makedirs", dirname(output_path)>> >> ELSE <<>>)
    \o << <<"launch", TRUE, browser_args>>,
          <<"new_page", width, height>>,
          <<"goto", file_url(html_path)>>,
          <<"wait_for_timeout", wait_time>>,
          <<"close">>,
          <<"screenshot", output_path, full_page>> >>

\* lines 34-69
PlanHtml(html_path, output_path, width, height, wait_time, full_page) ==
    (IF ~IsEmptyPath(dirname(output_path))
     THEN << <<"makedirs", dirname(output_path)>> >> ELSE <<>>)
    \o << <<"launch", TRUE, browser_args>>,
          <<"new_page", width, height>>,
          <<"goto", file_url(html_path)>>,
          <<"wait_for_timeout", wait_time>>,
          <<"screenshot", output_path, full_page>>,
          <<"close">> >>

screenshot_html(html_path, output_path, width, height, wait_time, full_page, failAt) ==
    Run(PlanHtml(html_path, output_path, width, height, wait_time, full_page),
        failAt, output_path)

\* "os.path.dirname(output_path) or '.'"
DirOrDot(output_path) ==
    IF IsEmptyPath(dirname(output_path)) THEN PathRec(FALSE, <<".">>) ELSE dirname(output_path)

\* a variant that captures before the actions are performed
PlanInteraction_ShotFirst(html_path, output_path, width, height, actions) ==
    << <<"makedirs", DirOrDot(output_path)>>,
       <<"launch", TRUE, browser_args>>,
       <<"new_page", width, height>>,
       <<"goto", file_url(html_path)>>,
       <<"wait_for_timeout", InitialLoadMs>>,
       <<"wait_for_timeout", FinalWaitMs>>,
       <<"screenshot", output_path, FALSE>> >>
    \o (IF Truthy(actions) THEN DispatchAll(actions.list, width, height) ELSE <<>>)
    \o << <<"close">> >>

\* lines 92-157
PlanInteraction(html_path, output_path, width, height, actions) ==
    << <<"makedirs", DirOrDot(output_path)>>,
       <<"launch", TRUE, browser_args>>,
       <<"new_page", width, height>>,
       <<"goto", file_url(html_path)>>,
       <<"wait_for_timeout", InitialLoadMs>> >>
    \o (IF Truthy(actions) THEN DispatchAll(actions.list, width, height) ELSE <<>>)
    \o << <<"wait_for_timeout", FinalWaitMs>>,
          <<"screenshot", output_path, FALSE>>,
          <<"close">> >>

screenshot_with_interaction(html_path, output_path, width, height, actions, failAt) ==
    Run(PlanInteraction(html_path, output_path, width, height, actions), failAt, output_path)

(***************************************************************************)
(* SpecShot: the two screenshot functions on bounded inputs.               *)
(***************************************************************************)
MaxActions == 2

SampleActions ==
    { [type |-> "wait", ms |-> 1000],
      [type |-> "wait"],
      [type |-> "click", selector |-> "#btn-play-pause"],
      [type |-> "click", selector |-> ""],
      [type |-> "click"],
      [type |-> "click_position", x |-> 700, y |-> 450],
      [type |-> "scroll", delta |-> 120, x |-> 10, y |-> 20],
      [type |-> "scroll"],
      [type |-> "drag", start_x |-> 1, start_y |-> 2, end_x |-> 3, end_y |-> 4],
      [type |-> "drag", end_x |-> 9],
      [type |-> "evaluate", script |-> "camera.setZoom(0.5)"],
      [type |-> "evaluate"],
      [type |-> "hover", selector |-> "#map"],
      [ms |-> 100] }

RECURSIVE ListsUpTo(_)
ListsUpTo(n) ==
    IF n = 0 THEN {<<>>}
    ELSE LET shorter == ListsUpTo(n - 1)
         IN  shorter \cup {Append(l, a) : l \in shorter, a \in SampleActions}

ActionArgs == {NoActions} \cup {ActionList(l) : l \in ListsUpTo(MaxActions)}

WaitTimes == {1000, 1500}

NoOut == [calls |-> <<>>, raised |-> FALSE, wrote |-> FALSE, returned |-> FALSE,
          ret |-> PathRec(FALSE, <<>>)]

ShotArgs(func, h, o, v, wt, fp, acts, failAt) ==
    [called |-> FALSE, func |-> func, html_path |-> h, output_path |-> o,
     width |-> v[1], height |-> v[2], wait_time |-> wt, full_page |-> fp,
     actions |-> acts, failAt |-> failAt, out |-> NoOut]

NoCmp == [called |-> FALSE, p1 |-> "ref1", p2 |-> "ref1",
          out |-> CmpResult(FALSE, FALSE, {}, "none")]
NoGate == [called |-> FALSE, final |-> "ref1", temp |-> "tmp1",
           before |-> [p \in Paths |-> NoFile], outcome |-> "none", captureRaised |-> FALSE,
           captured |-> NoFile, saveCalled |-> FALSE, ret |-> FALSE,
           same |-> CmpResult(FALSE, FALSE, {}, "none")]
NoShot == ShotArgs("none", PathRec(FALSE, <<>>), PathRec(FALSE, <<>>), <<0, 0>>, 0, FALSE,
                   NoActions, 0)
NoHist == [p \in {"ref1", "ref2"} |-> <<>>]

\* where the calls come from: the command line and two tests
CallSites ==
    { <<PathRec(FALSE, <<"frontend", "index.html">>), PathRec(FALSE, <<"screenshot.png">>),
        <<1200, 800>> >>,
      <<PathRec(TRUE, <<"srv", "index.html">>), PathRec(FALSE, <<"screenshots", "a.png">>),
        <<1400, 900>> >>,
      <<PathRec(FALSE, <<"frontend", "index.html">>), PathRec(TRUE, <<"tmp", "tmp1.png">>),
        <<1024, 768>> >> }

HtmlCall ==
    \E c \in CallSites, wt \in WaitTimes, fp \in BOOLEAN :
      \E failAt \in 0..Len(PlanHtml(c[1], c[2], c[3][1], c[3][2], wt, fp)) :
        shot = ShotArgs("screenshot_html", c[1], c[2], c[3], wt, fp, NoActions, failAt)

InteractionCall ==
    \E c \in CallSites, acts \in ActionArgs :
      \E failAt \in 0..Len(PlanInteraction(c[1], c[2], c[3][1], c[3][2], acts)) :
        shot = ShotArgs("screenshot_with_interaction", c[1], c[2], c[3], 0, FALSE, acts,
                        failAt)

\* the inputs of the call, and which of its calls the environment makes fail
InitShot ==
    /\ fs = [p \in Paths |-> NoFile]
    /\ pil = TRUE
    /\ cmp = NoCmp
    /\ gate = NoGate
    /\ hist = NoHist
    /\ HtmlCall \/ InteractionCall

CallScreenshotHtml ==
    /\ ~shot.called
    /\ shot.func = "screenshot_html"
    /\ shot' = [shot EXCEPT !.called = TRUE,
                  !.out = screenshot_html(shot.html_path, shot.output_path, shot.width,
                                          shot.height, shot.wait_time, shot.full_page,
                                          shot.failAt)]
    /\ UNCHANGED <<fs, pil, cmp, gate, hist>>

CallScreenshotWithInteraction ==
    /\ ~shot.called
    /\ shot.func = "screenshot_with_interaction"
    /\ shot' = [shot EXCEPT !.called = TRUE,
                  !.out = screenshot_with_interaction(shot.html_path, shot.output_path,
                                                      shot.width, shot.height,
                                                      shot.actions, shot.failAt)]
    /\ UNCHANGED <<fs, pil, cmp, gate, hist>>

NextShot == CallScreenshotHtml \/ CallScreenshotWithInteraction

SpecShot == InitShot /\ [][NextShot]_vars

(***************************************************************************)
(* SpecCmp: images_are_identical on every pair of files.                   *)
(***************************************************************************)
CmpPaths == {"ref1", "tmp1"}

InitCmp ==
    /\ \E a, b \in Blobs \cup {NoFile} :
         fs = [p \in Paths |-> IF p = "ref1" THEN a ELSE IF p = "tmp1" THEN b ELSE NoFile]
    /\ pil \in BOOLEAN
    /\ cmp = NoCmp
    /\ gate = NoGate
    /\ hist = NoHist
    /\ shot = NoShot

Compare(p1, p2) ==
    /\ cmp' = [called |-> TRUE, p1 |-> p1, p2 |-> p2,
               out |-> images_are_identical(fs, pil, p1, p2)]
    /\ UNCHANGED <<fs, pil, gate, hist, shot>>

NextCmp == \E p1, p2 \in CmpPaths : Compare(p1, p2)

SpecCmp == InitCmp /\ [][NextCmp]_vars


(***************************************************************************)
(* save_screenshot_if_changed(temp_path, final_path).                      *)
(***************************************************************************)
\* shutil.move(src, dst): dst takes the content of src, src is gone
move(f, src, dst) == IF src = dst THEN f ELSE [f EXCEPT ![dst] = f[src], ![src] = NoFile]

\* Path.unlink()
unlink(f, p) == [f EXCEPT ![p] = NoFile]

NotCompared == CmpResult(FALSE, FALSE, {}, "none")

SaveResult(f, ret, raised, same) == [fs |-> f, ret |-> ret, raised |-> raised, same |-> same]

\* a variant that moves the capture onto the reference whatever the comparison says
save_always_moves(f, havePil, temp_path, final_path) ==
    IF ~exists(f, final_path)
    THEN SaveResult(move(f, temp_path, final_path), TRUE, FALSE, NotCompared)
    ELSE LET same == images_are_identical(f, havePil, temp_path, final_path)
         IN  IF same.raised THEN SaveResult(f, FALSE, TRUE, same)
             ELSE SaveResult(move(f, temp_path, final_path), ~same.result, FALSE, same)

\* a variant that reports a first capture as unchanged
save_new_returns_false(f, havePil, temp_path, final_path) ==
    IF ~exists(f, final_path)
    THEN SaveResult(move(f, temp_path, final_path), FALSE, FALSE, NotCompared)
    ELSE LET same == images_are_identical(f, havePil, temp_path, final_path)
         IN  IF same.raised THEN SaveResult(f, FALSE, TRUE, same)
             ELSE IF same.result THEN SaveResult(unlink(f, temp_path), FALSE, FALSE, same)
             ELSE SaveResult(move(f, temp_path, final_path), TRUE, FALSE, same)

\* a variant that unlinks the wrong one of the two identical files
save_unlinks_final(f, havePil, temp_path, final_path) ==
    IF ~exists(f, final_path)
    THEN SaveResult(move(f, temp_path, final_path), TRUE, FALSE, NotCompared)
    ELSE LET same == images_are_identical(f, havePil, temp_path, final_path)
         IN  IF same.raised THEN SaveResult(f, FALSE, TRUE, same)
             ELSE IF same.result THEN SaveResult(unlink(f, final_path), FALSE, FALSE, same)
             ELSE SaveResult(move(f, temp_path, final_path), TRUE, FALSE, same)

\* a variant that copies the capture instead of moving it
save_copies(f, havePil, temp_path, final_path) ==
    IF ~exists(f, final_path)
    THEN SaveResult([f EXCEPT ![final_path] = f[temp_path]], TRUE, FALSE, NotCompared)
    ELSE LET same == images_are_identical(f, havePil, temp_path, final_path)
         IN  IF same.raised THEN SaveResult(f, FALSE, TRUE, same)
             ELSE IF same.result THEN SaveResult(unlink(f, temp_path), FALSE, FALSE, same)
             ELSE SaveResult([f EXCEPT ![final_path] = f[temp_path]], TRUE, FALSE, same)

\* lines 75-87
save_screenshot_if_changed(f, havePil, temp_path, final_path) ==
    IF ~exists(f, final_path)
    THEN SaveResult(move(f, temp_path, final_path), TRUE, FALSE, NotCompared)
    ELSE LET same == images_are_identical(f, havePil, temp_path, final_path)
         IN  IF same.raised THEN SaveResult(f, FALSE, TRUE, same)
             ELSE IF same.result THEN SaveResult(unlink(f, temp_path), FALSE, FALSE, same)
             ELSE SaveResult(move(f, temp_path, final_path), TRUE, FALSE, same)

(***************************************************************************)
(* _capture_and_compare(final_path, capture_func).  The scenarios are two  *)
(* of the test catalog: the initial game state, captured by                *)
(* screenshot_html, and the settlements tab, captured by                   *)
(* screenshot_with_interaction.                                            *)
(***************************************************************************)
Refs == {"ref1", "ref2"}
Temps == {"tmp1", "tmp2"}

HTML_PATH == PathRec(TRUE, <<"proj", "frontend", "index.html">>)

\* tempfile.NamedTemporaryFile(suffix='.png', delete=False): the path of the file
TempPath(temp) == PathRec(TRUE, <<"tmp", temp>>)

SettlementsActions ==
    ActionList(<< [type |-> "wait", ms |-> 1000],
                  [type |-> "click", selector |-> "[data-tab=settlements]"],
                  [type |-> "wait", ms |-> 500] >>)

\* the capture functions of test_initial_game_state (lines 123-130) and of
\* test_settlements_tab (lines 142-155)
capture(final_path, temp, failAt) ==
    IF final_path = "ref1"
    THEN screenshot_html(HTML_PATH, TempPath(temp), 1400, 900, 1500, FALSE, failAt)
    ELSE screenshot_with_interaction(HTML_PATH, TempPath(temp), 1400, 900,
                                     SettlementsActions, failAt)

\* how a capture can end: for each call of its sequence that may fail, and for
\* none failing, whether it raised and whether page.screenshot had written its file
CaptureOutcomes ==
    [final_path \in Refs |->
       {[raised |-> r.raised, wrote |-> r.wrote] :
          r \in {capture(final_path, "tmp1", failAt) :
                   failAt \in 0..Len(capture(final_path, "tmp1", 0).calls)}}]

\* what page.screenshot may write: an image of the viewport, or nothing
ShotBlobs == {b \in PngBlobs : b.w = 1400 /\ b.mode = "RGBA" /\ ~b.trunc} \cup {Empty}

GateResult(f, outcome, captureRaised, captured, saveCalled, ret, same) ==
    [fs |-> f, outcome |-> outcome, captureRaised |-> captureRaised, captured |-> captured,
     saveCalled |-> saveCalled, ret |-> ret, same |-> same]

\* a variant without the two assertions on the temporary file
capture_and_compare_no_asserts(f, havePil, final_path, temp, shotOut, written) ==
    LET created == [f EXCEPT ![temp] = Empty]
        after == IF shotOut.wrote THEN [created EXCEPT ![temp] = written] ELSE created
    IN  IF shotOut.raised
        THEN GateResult(after, "capture_raised", TRUE, after[temp], FALSE, FALSE, NotCompared)
        ELSE LET saved == save_screenshot_if_changed(after, havePil, temp, final_path)
             IN  GateResult(saved.fs, IF saved.raised THEN "save_raised" ELSE "returned",
                            FALSE, after[temp], TRUE, saved.ret, saved.same)

\* lines 105-114; temp is the fresh name NamedTemporaryFile picked, shotOut is how
\* capture_func ended and written is what it put into the file if it wrote it
capture_and_compare(f, havePil, final_path, temp, shotOut, written) ==
    LET created == [f EXCEPT ![temp] = Empty]
        after == IF shotOut.wrote THEN [created EXCEPT ![temp] = written] ELSE created
    IN  IF shotOut.raised
        THEN GateResult(after, "capture_raised", TRUE, after[temp], FALSE, FALSE, NotCompared)
        ELSE IF ~exists(after, temp) \/ st_size(after[temp]) <= 0
        THEN GateResult(after, "assert_failed", FALSE, after[temp], FALSE, FALSE, NotCompared)
        ELSE LET saved == save_screenshot_if_changed(after, havePil, temp, final_path)
             IN  GateResult(saved.fs, IF saved.raised THEN "save_raised" ELSE "returned",
                            FALSE, after[temp], TRUE, saved.ret, saved.same)

(***************************************************************************)
(* Spec: the scenarios of the catalog captured again and again.            *)
(***************************************************************************)
MaxRuns == 2

\* the reference file a run may find: none, a file that is no image, an earlier
\* capture, or an image that differs from every capture in size, in mode or in
\* being cut short
RefBlobs ==
    {NoFile, Empty, Junk, Unreadable}
    \cup (ShotBlobs \ {Empty})
    \cup {Blob("png", 1024, "RGBA", 0, 0, FALSE), Blob("png", 1400, "RGB", 0, 0, FALSE),
          Blob("png", 1400, "RGBA", 0, 0, TRUE)}

Init ==
    /\ \E r \in Refs, b \in RefBlobs :
         fs = [p \in Paths |-> IF p = r THEN b ELSE NoFile]
    /\ pil \in BOOLEAN
    /\ cmp = NoCmp
    /\ gate = NoGate
    /\ hist = NoHist
    /\ shot = NoShot

\* the calls made so far: those that returned, and those that raised, each of
\* which left its temporary file behind
Calls == Len(hist["ref1"]) + Len(hist["ref2"]) + Cardinality({t \in Temps : exists(fs, t)})

CaptureAndCompare(final_path) ==
    /\ Calls < MaxRuns
    /\ \E temp \in Temps, shotOut \in CaptureOutcomes[final_path] :
         \* a name no file has yet
         /\ ~exists(fs, temp)
         /\ temp = "tmp2" => exists(fs, "tmp1")
         /\ \E written \in (IF shotOut.wrote THEN ShotBlobs ELSE {Empty}) :
            \E r \in {capture_and_compare(fs, pil, final_path, temp, shotOut, written)} :
                /\ fs' = r.fs
                /\ gate' = [called |-> TRUE, final |-> final_path, temp |-> temp,
                            before |-> fs, outcome |-> r.outcome,
                            captureRaised |-> r.captureRaised, captured |-> r.captured,
                            saveCalled |-> r.saveCalled, ret |-> r.ret, same |-> r.same]
                /\ hist' = IF r.outcome = "returned"
                           THEN [hist EXCEPT ![final_path] =
                                   Append(@, [before |-> fs[final_path],
                                              captured |-> r.captured,
                                              ret |-> r.ret,
                                              after |-> r.fs[final_path]])]
                           ELSE hist
    /\ UNCHANGED <<pil, cmp, shot>>

Next == \E final_path \in Refs : CaptureAndCompare(final_path)

Spec == Init /\ [][Next]_vars

(***************************************************************************)
(* Properties of the screenshot functions (SpecShot).                      *)
(***************************************************************************)
IsPrefix(s, t) == Len(s) <= Len(t) /\ SubSeq(t, 1, Len(s)) = s

\* the positions of the calls of one operation in a sequence of calls
At(calls, op) == {i \in 1..Len(calls) : calls[i][1] = op}
Count(calls, op) == Cardinality(At(calls, op))
Pos(calls, op) == CHOOSE i \in At(calls, op) : TRUE

\* the calls the actions of a list make, taken one action after the other
RECURSIVE InOrder(_, _, _)
InOrder(list, width, height) ==
    IF list = <<>> THEN <<>>
    ELSE InOrder(SubSeq(list, 1, Len(list) - 1), width, height)
         \o Dispatch(list[Len(list)], width, height)

Interacted == shot.called /\ shot.func = "screenshot_with_interaction"

\* C3: in screenshot_with_interaction the calls made for the actions are those of
\* the list, one action at a time in list order, all after the navigation and the
\* initial 500 ms wait; at most one screenshot is taken, it comes after all of
\* them and right after the final 300 ms wait, and a call that returns has taken
\* exactly one.  A missing or empty list leaves nothing between the two waits.
C3_ActionsInOrderBeforeCapture ==
    Interacted =>
      LET calls == shot.out.calls
          want == InOrder(shot.actions.list, shot.width, shot.height)
      IN  /\ Count(calls, "screenshot") <= 1
          /\ Count(calls, "goto") <= 1
          /\ shot.out.returned => Count(calls, "screenshot") = 1
          /\ Count(calls, "goto") = 1 /\ Len(calls) > Pos(calls, "goto") =>
               LET g == Pos(calls, "goto")
               IN  /\ calls[g + 1] = <<"wait_for_timeout", 500>>
                   /\ IsPrefix(SubSeq(calls, g + 2, Len(calls)),
                               want \o << <<"wait_for_timeout", 300>>,
                                          <<"screenshot", shot.output_path, FALSE>>,
                                          <<"close">> >>)
          /\ Count(calls, "screenshot") = 1 =>
               LET g == Pos(calls, "goto")
                   c == Pos(calls, "screenshot")
               IN  /\ Count(calls, "goto") = 1
                   /\ g < c
                   /\ SubSeq(calls, g + 2, c - 2) = want
                   /\ calls[c - 1] = <<"wait_for_timeout", 300>>

\* a call that returned after two different actions that each reach the page
C3_Witness ==
    /\ Interacted
    /\ shot.out.returned
    /\ shot.actions.list = << [type |-> "drag", end_x |-> 9],
                              [type |-> "evaluate", script |-> "camera.setZoom(0.5)"] >>

SixKinds == {"wait", "click", "click_position", "scroll", "drag", "evaluate"}

\* the parameters of each kind of action
Params(kind) ==
    CASE kind = "wait" -> {"ms"}
      [] kind = "click" -> {"selector"}
      [] kind = "click_position" -> {"x", "y"}
      [] kind = "scroll" -> {"delta", "x", "y"}
      [] kind = "drag" -> {"start_x", "start_y", "end_x", "end_y"}
      [] kind = "evaluate" -> {"script"}

\* C4: every parameter given in the dict of an action of one of the six kinds
\* (a click with a selector to click on) reaches the page: it is an argument of
\* one of the calls made for that action.
C4_ForwardedVerbatim ==
    /\ Interacted
    /\ shot.out.returned
    /\ Len(shot.actions.list) = 1
    /\ "type" \in DOMAIN shot.actions.list[1]
    /\ shot.actions.list[1].type \in SixKinds
    /\ shot.actions.list[1].type = "click" =>
         "selector" \in DOMAIN shot.actions.list[1] /\ shot.actions.list[1].selector # ""
    => LET a == shot.actions.list[1]
           calls == shot.out.calls
       IN  \A k \in Params(a.type) \cap DOMAIN a :
             \E i \in 6..(Len(calls) - 3) :
               \E j \in 2..Len(calls[i]) : calls[i][j] = a[k]

\* the names of the calls, without those made for the actions
Lifecycle(calls) ==
    SelectSeq([i \in 1..Len(calls) |-> calls[i][1]],
              LAMBDA op : op \in {"makedirs", "launch", "new_page", "goto", "screenshot",
                                  "close"})

BareOutput == IsEmptyPath(dirname(shot.output_path))

\* what every returned call does besides creating the directory
LifecycleArgs ==
    LET calls == shot.out.calls
        g == Pos(calls, "goto")
        c == Pos(calls, "screenshot")
    IN  /\ \A op \in {"launch", "new_page", "goto", "screenshot", "close"} :
             Count(calls, op) = 1
        /\ calls[Pos(calls, "launch")][2] = TRUE
        /\ calls[Pos(calls, "new_page")] = <<"new_page", shot.width, shot.height>>
        /\ calls[g] = <<"goto", <<"file://", abspath(shot.html_path)>> >>
        /\ abspath(shot.html_path).abs
        /\ calls[g + 1][1] = "wait_for_timeout"
        /\ calls[c - 1][1] = "wait_for_timeout"
        /\ shot.func = "screenshot_html" =>
             /\ Count(calls, "wait_for_timeout") = 1
             /\ calls[g + 1][2] = shot.wait_time
        /\ calls[c][2] = shot.output_path
        /\ calls[Len(calls)] = <<"close">>
        /\ shot.out.ret = shot.output_path

\* C7 as stated: every call that returns creates the output directory, launches,
\* opens the page, navigates, waits, captures and closes, once each in that order.
C7_LifecycleAsStated ==
    shot.called /\ shot.out.returned =>
      /\ Lifecycle(shot.out.calls) =
           <<"makedirs", "launch", "new_page", "goto", "screenshot", "close">>
      /\ LifecycleArgs

\* C7: as stated, except that screenshot_html makes no call to create a
\* directory when output_path has no directory part.
C7_Lifecycle ==
    shot.called /\ shot.out.returned =>
      /\ Lifecycle(shot.out.calls) =
           (IF shot.func = "screenshot_html" /\ BareOutput THEN <<>> ELSE <<"makedirs">>)
           \o <<"launch", "new_page", "goto", "screenshot", "close">>
      /\ Count(shot.out.calls, "makedirs") = 1 =>
           shot.out.calls[1][2] =
             (IF BareOutput THEN PathRec(FALSE, <<".">>) ELSE dirname(shot.output_path))
      /\ LifecycleArgs

\* screenshot_html returned for an output path without a directory part
C7_Witness ==
    /\ shot.called
    /\ shot.func = "screenshot_html"
    /\ shot.out.returned
    /\ BareOutput
    /\ shot.full_page


(***************************************************************************)
(* Properties of images_are_identical (SpecCmp).                           *)
(***************************************************************************)
\* a file that holds a complete image
IsImage(b) == b.kind = "png" /\ ~b.trunc

\* C5: with the image library, images_are_identical returns, and returns True
\* exactly when both files exist, both hold an image, and the two images have the
\* same size, the same mode and the same pixel data; it returns False otherwise.
C5_PixelLevelCompare ==
    cmp.called /\ pil =>
      LET a == fs[cmp.p1]
          b == fs[cmp.p2]
      IN  /\ ~cmp.out.raised
          /\ cmp.out.result \in BOOLEAN
          /\ cmp.out.result <=>
               /\ a.kind # "none" /\ b.kind # "none"
               /\ IsImage(a) /\ IsImage(b)
               /\ a.w = b.w
               /\ a.mode = b.mode
               /\ a.pix = b.pix

\* two files that differ in their bytes and hold the same image are identical
C5_Witness ==
    /\ cmp.called
    /\ pil
    /\ cmp.out.result
    /\ fs[cmp.p1].meta # fs[cmp.p2].meta

\* C6: when one of the two paths does not exist, images_are_identical returns
\* False, on either comparison path, and has opened neither file.
C6_MissingFileIsFalse ==
    cmp.called /\ (fs[cmp.p1].kind = "none" \/ fs[cmp.p2].kind = "none") =>
      /\ ~cmp.out.raised
      /\ cmp.out.result = FALSE
      /\ cmp.out.opened = {}

\* without the image library: the first file cannot be read, the second is missing
C6_Witness ==
    /\ cmp.called
    /\ ~pil
    /\ fs[cmp.p1].kind = "unreadable"
    /\ fs[cmp.p2].kind = "none"


(***************************************************************************)
(* Properties of the gate (Spec).                                          *)
(***************************************************************************)
\* the reference file before the last call
RefBefore == gate.before[gate.final]

\* the files as save_screenshot_if_changed found them in the last call
FilesAtSave == [gate.before EXCEPT ![gate.temp] = gate.captured]

\* what images_are_identical(temp_path, final_path) says of those files
WasIdentical ==
    LET same == images_are_identical(FilesAtSave, pil, gate.temp, gate.final)
    IN  ~same.raised /\ same.result

Saved == gate.called /\ gate.saveCalled /\ gate.outcome = "returned"

\* C1: when the reference exists and images_are_identical finds the capture
\* identical to it, save_screenshot_if_changed leaves the reference's content
\* exactly as it was.
C1_IdenticalKeepsReference ==
    Saved /\ RefBefore.kind # "none" /\ WasIdentical => fs[gate.final] = RefBefore

\* the capture was identical to the reference and held other bytes
C1_Witness ==
    /\ Saved
    /\ RefBefore.kind # "none"
    /\ WasIdentical
    /\ gate.captured # RefBefore

\* C2: save_screenshot_if_changed returns True exactly when the reference did not
\* exist or images_are_identical was False, and the reference then holds what the
\* temporary file held; it returns False exactly when the reference existed and
\* the images were identical.
C2_TrueIffUpdated ==
    Saved =>
      /\ gate.ret \in BOOLEAN
      /\ gate.ret <=> (RefBefore.kind = "none" \/ ~WasIdentical)
      /\ gate.ret => fs[gate.final] = gate.captured
      /\ ~gate.ret <=> (RefBefore.kind # "none" /\ WasIdentical)

\* an existing reference was replaced by a different capture
C2_Witness ==
    /\ Saved
    /\ gate.ret
    /\ RefBefore.kind = "png"
    /\ fs[gate.final] # RefBefore

\* C8: when save_screenshot_if_changed returns, and so when _capture_and_compare
\* does, the reference file exists, whatever was returned and whether or not the
\* reference existed before.
C8_ReferenceExistsAfter ==
    Saved => exists(fs, gate.final)

\* the call returned False for the second scenario
C8_Witness ==
    /\ Saved
    /\ ~gate.ret
    /\ gate.final = "ref2"

\* two files hold the same image
PixelIdentical(a, b) ==
    /\ IsImage(a) /\ IsImage(b)
    /\ a.w = b.w /\ a.mode = b.mode /\ a.pix = b.pix

\* every capture stored into or compared with reference r was the same image
AllAlike(r) ==
    \A i, j \in 1..Len(hist[r]) : PixelIdentical(hist[r][i].captured, hist[r][j].captured)

\* every capture stored into or compared with reference r had the same bytes
AllSameBytes(r) ==
    \A i, j \in 1..Len(hist[r]) : hist[r][i].captured = hist[r][j].captured

\* the first call on r stored its capture and returned True, every later one
\* returned False and left the reference as the first call had left it
StoredOnce(r) ==
    LET h == hist[r]
    IN  /\ h[1].ret
        /\ h[1].after = h[1].captured
        /\ \A i \in 2..Len(h) : ~h[i].ret /\ h[i].after = h[1].after
        /\ fs[r] = h[1].after

C10_FailedCaptureKeepsReference ==
    gate.called =>
      /\ gate.captureRaised \/ st_size(gate.captured) = 0 =>
           /\ ~gate.saveCalled
           /\ gate.outcome \in {"capture_raised", "assert_failed"}
           /\ fs[gate.final] = RefBefore
      /\ \A r \in Refs :
           fs[r] # gate.before[r] => gate.saveCalled /\ r = gate.final

\* an action failed in the browser while a reference existed
C10_Witness ==
    /\ gate.called
    /\ gate.final = "ref2"
    /\ gate.captureRaised
    /\ RefBefore.kind = "png"


\* C11: when save_screenshot_if_changed returns, the temporary file is gone: it
\* was moved onto the reference (the call returned True and the reference holds
\* the capture) or unlinked (the call returned False and the reference is as it
\* was).
C11_TempNeverSurvives ==
    Saved =>
      /\ ~exists(fs, gate.temp)
      /\ gate.ret => fs[gate.final] = gate.captured
      /\ ~gate.ret => fs[gate.final] = RefBefore

\* a capture replaced a reference that was no image
C11_Witness ==
    /\ Saved
    /\ gate.ret
    /\ RefBefore = Junk
    /\ ~exists(fs, gate.temp)


(***************************************************************************)
(* Actions that reach the page, and actions that do not (SpecShot).        *)
(***************************************************************************)
\* an action that names one of the six kinds, and what to click if it is a click
Dispatchable(a) ==
    /\ "type" \in DOMAIN a
    /\ a.type \in SixKinds
    /\ a.type = "click" => "selector" \in DOMAIN a /\ a.selector # ""

\* C12: an action without a type, of a kind other than the six, or a click
\* without a selector makes no call and raises nothing: the calls made for the
\* list are those of its other actions, in order, the screenshot follows them,
\* and a run in which no call on the browser fails returns.
C12_UndispatchableSkipped ==
    Interacted =>
      LET calls == shot.out.calls
          kept == SelectSeq(shot.actions.list, Dispatchable)
          rest == InOrder(kept, shot.width, shot.height)
                  \o << <<"wait_for_timeout", 300>>,
                        <<"screenshot", shot.output_path, FALSE>>,
                        <<"close">> >>
      IN  /\ Len(calls) >= 5 => IsPrefix(SubSeq(calls, 6, Len(calls)), rest)
          /\ shot.failAt = 0 =>
               /\ shot.out.returned
               /\ ~shot.out.raised
               /\ SubSeq(calls, 6, Len(calls)) = rest
          /\ shot.out.raised => shot.failAt = Len(calls) /\ shot.failAt <= 5 + Len(rest)

\* a hover, which is none of the six kinds, followed by a script
C12_Witness ==
    /\ Interacted
    /\ shot.out.returned
    /\ shot.actions.list = << [type |-> "hover", selector |-> "#map"],
                              [type |-> "evaluate", script |-> "camera.setZoom(0.5)"] >>
    /\ Count(shot.out.calls, "evaluate") = 1


(***************************************************************************)
(* The mouse button (SpecShot).                                            *)
(***************************************************************************)
IsDrag(a) == "type" \in DOMAIN a /\ a.type = "drag"

\* what the claim says a drag issues; a coordinate the action does not give is 0
DragCalls(a) ==
    << <<"mouse.move", IF "start_x" \in DOMAIN a THEN a.start_x ELSE 0,
                       IF "start_y" \in DOMAIN a THEN a.start_y ELSE 0>>,
       <<"mouse.down">>,
       <<"mouse.move", IF "end_x" \in DOMAIN a THEN a.end_x ELSE 0,
                       IF "end_y" \in DOMAIN a THEN a.end_y ELSE 0>>,
       <<"mouse.up">> >>

\* the positions of the mouse.down calls, in order
DownsAt(calls) ==
    SelectSeq([i \in 1..Len(calls) |-> i], LAMBDA i : calls[i][1] = "mouse.down")

\* the number of calls of op among the first n calls
CountUpTo(calls, op, n) == Cardinality({i \in 1..n : calls[i][1] = op})

\* C13: every drag of the list issues move to its start, down, move to its end,
\* up, in that order; in a call that returns there are as many of these groups as
\* the list has drags, with their coordinates; at no point is the button pressed
\* twice without a release, and it is released when the screenshot is taken.
C13_DragBalanced ==
    Interacted =>
      LET calls == shot.out.calls
          downs == DownsAt(calls)
          drags == SelectSeq(shot.actions.list, IsDrag)
      IN  /\ Len(downs) <= Len(drags)
          /\ shot.out.returned => Len(downs) = Len(drags)
          /\ \A k \in 1..Len(downs) :
               IsPrefix(SubSeq(calls, downs[k] - 1, Len(calls)), DragCalls(drags[k]))
               \/ IsPrefix(DragCalls(drags[k]), SubSeq(calls, downs[k] - 1, Len(calls)))
          /\ \A n \in 0..Len(calls) :
               /\ CountUpTo(calls, "mouse.up", n) <= CountUpTo(calls, "mouse.down", n)
               /\ CountUpTo(calls, "mouse.down", n) <= CountUpTo(calls, "mouse.up", n) + 1
          /\ \A c \in At(calls, "screenshot") :
               CountUpTo(calls, "mouse.down", c) = CountUpTo(calls, "mouse.up", c)
          /\ shot.out.returned => Count(calls, "mouse.down") = Count(calls, "mouse.up")

\* a drag, then a click at a position, then the screenshot
C13_Witness ==
    /\ Interacted
    /\ shot.out.returned
    /\ shot.actions.list =
         << [type |-> "drag", start_x |-> 1, start_y |-> 2, end_x |-> 3, end_y |-> 4],
            [type |-> "click_position", x |-> 700, y |-> 450] >>
    /\ Count(shot.out.calls, "mouse.down") = 1


(***************************************************************************)
(* Failures while comparing (SpecCmp).                                     *)
(***************************************************************************)
\* a file the comparison cannot work with: one that cannot be read, or, for the
\* image library, one that holds no complete image
FailsToCompare(b, havePil) == ~CanRead(b) \/ (havePil /\ ~IsImage(b))

\* C14: images_are_identical never raises; when both files exist and one of them
\* cannot be read or decoded, on either comparison path, it returns False.
C14_NeverRaises ==
    cmp.called =>
      /\ ~cmp.out.raised
      /\ /\ fs[cmp.p1].kind # "none"
         /\ fs[cmp.p2].kind # "none"
         /\ FailsToCompare(fs[cmp.p1], pil) \/ FailsToCompare(fs[cmp.p2], pil)
         => cmp.out.result = FALSE


(***************************************************************************)
(* The two comparison paths on the same pair of files (SpecCmp).           *)
(***************************************************************************)
BothExist == fs[cmp.p1].kind # "none" /\ fs[cmp.p2].kind # "none"

\* what each path says of the pair, whichever of them the call took
FallbackSaysIdentical ==
    LET h == HashCompare(fs, cmp.p1, cmp.p2) IN ~h.raised /\ h.result
PixelPathSaysIdentical ==
    LET q == PillowCompare(fs, cmp.p1, cmp.p2) IN ~q.raised /\ q.result

\* without the image library, a result for two existing files is True exactly
\* when the two files hold the same bytes
FallbackIsByteEquality ==
    cmp.called /\ ~pil /\ BothExist /\ ~cmp.out.raised =>
      /\ cmp.out.via = "hash"
      /\ cmp.out.result <=> fs[cmp.p1] = fs[cmp.p2]

\* C15 as stated: the fallback's result is the equality of the files' bytes, and
\* every pair of existing files the fallback reports identical is reported
\* identical by the pixel-level path.
C15_FallbackImpliesPixelAsStated ==
    /\ FallbackIsByteEquality
    /\ cmp.called /\ BothExist /\ FallbackSaysIdentical => PixelPathSaysIdentical

\* C15: as stated, for pairs of files that hold complete images.
C15_FallbackImpliesPixel ==
    /\ FallbackIsByteEquality
    /\ cmp.called /\ BothExist /\ IsImage(fs[cmp.p1]) /\ IsImage(fs[cmp.p2])
       /\ FallbackSaysIdentical => PixelPathSaysIdentical

\* without the image library, two different files holding the same image bytes
\* were reported identical
C15_Witness ==
    /\ cmp.called
    /\ ~pil
    /\ cmp.p1 # cmp.p2
    /\ cmp.out.result
    /\ IsImage(fs[cmp.p1])
    /\ PixelPathSaysIdentical

====
